---- MODULE Spec2Model ----
(***************************************************************************)
(* The LLM code deployment agent: the HTTP front door (src/app.py) and the *)
(* background pipeline process_request (src/helpers.py): generate_app,     *)
(* create_repo, upload_files_to_repo, enable_pages, notify_evaluation.     *)
(* Every file operation and every external call is one step of a run.      *)
(***************************************************************************)
EXTENDS Integers, Sequences, FiniteSets, TLC

\* ------------------------------------------------------------------ bounds

\* Number of HTTP requests the caller submits in one behaviour.
MaxRequests == 2
\* Longest attachments list of a request.
MaxAttachments == 1

Requests == 1..MaxRequests

\* ------------------------------------------------------------- request data

None == "None"
Absent == "absent"

TaskIds == {"t1", "t2"}
Rounds == {1, 2}
SHARED_SECRET == "s3cret"
Secrets == {None, "", "wrong", SHARED_SECRET}
CallbackUrl == "http://eval/notify"
EvaluationUrls == {None, CallbackUrl}

\* Attachment entries a request may carry: attachment.get('name') and
\* attachment.get('url') are None when the key is missing.
AttachmentMenu ==
    { [name |-> "a.txt",      url |-> "data:text/plain;base64,YTE="],
      [name |-> "index.html", url |-> "data:text/html;base64,PGI+"],
      [name |-> "a.txt",      url |-> None],
      [name |-> "a.txt",      url |-> "YTE="] }

RECURSIVE SeqsUpTo(_, _)
SeqsUpTo(S, n) ==
    IF n = 0 THEN { <<>> }
    ELSE LET shorter == SeqsUpTo(S, n - 1)
         IN  shorter \cup { Append(s, x) : s \in { t \in shorter : Len(t) = n - 1 }, x \in S }

AttachmentLists == SeqsUpTo(AttachmentMenu, MaxAttachments)

NonceOf(q) == <<"nonce", q>>
EmailOf(q) == <<"email", q>>
BriefOf(q) == <<"brief", q>>

\* The JSON bodies of POST /api/request.
RequestBodies(q) ==
    [ secret : Secrets, task : TaskIds, brief : {BriefOf(q)},
      attachments : AttachmentLists, evaluation_url : EvaluationUrls,
      nonce : {NonceOf(q)}, round : Rounds, email : {EmailOf(q)} ]

NoRequest ==
    [ secret |-> None, task |-> None, brief |-> <<>>, attachments |-> <<>>,
      evaluation_url |-> None, nonce |-> <<>>, round |-> 0, email |-> <<>> ]

\* ------------------------------------------------------------ pure helpers

\* Python truthiness of a str-or-None value: `if x`, `not x`.
Truthy(x) == x # None /\ x # ""

\* data_uri.split(",", 1): two parts when the string holds a comma.
HasComma(uri) == uri \in { "data:text/plain;base64,YTE=", "data:text/html;base64,PGI+" }
EncodedPart(uri) ==
    CASE uri = "data:text/plain;base64,YTE=" -> "YTE="
      [] uri = "data:text/html;base64,PGI+"  -> "PGI+"
      [] OTHER -> ""

\* base64.b64decode on the payloads above.
b64decode(encoded) ==
    CASE encoded = "YTE=" -> "a1"
      [] encoded = "PGI+" -> "<b>"
      [] OTHER -> ""

task_dir(task_id) == <<"task-", task_id>>
repo_name(task_id) == <<"task-", task_id>>

IndexHtml == "index.html"
FileNames == { IndexHtml, "a.txt" }
Paths == FileNames \cup { "LICENSE", "README.md" }

LicenseContent == "MIT License"
ReadmeContent(task_id) == "# " \o task_id \o " ## Summary ..."

\* blob sha of a file at the remote HEAD: git's hash of its content.
Sha(content) == <<"sha", content>>
CommitSha(task_id, n) == <<"commit", task_id, n>>
HtmlUrl(task_id) == <<"https://github.com/user/", repo_name(task_id)>>
PagesUrl(task_id) == <<"https://user.github.io/", repo_name(task_id)>>

\* ---------------------------------------------------- generation responses

FallbackHtml == "<html><body>Error generating content.</body></html>"
Docs == { "<p>v1</p>", "<p>v2</p>" }

\* response.choices[0].message.content values the generation service returns.
ResponseContents == { "{\"html\": \"<p>v1</p>\"}", "{\"html\": \"<p>v2</p>\"}", "{}", "<p>v1</p>" }

\* json.loads: the parsed object, or JSONDecodeError.
json_loads(content) ==
    CASE content = "{\"html\": \"<p>v1</p>\"}" -> [ok |-> TRUE,  keys |-> {"html"}, html |-> "<p>v1</p>"]
      [] content = "{\"html\": \"<p>v2</p>\"}" -> [ok |-> TRUE,  keys |-> {"html"}, html |-> "<p>v2</p>"]
      [] content = "{}"                        -> [ok |-> TRUE,  keys |-> {},       html |-> None]
      [] OTHER                                 -> [ok |-> FALSE, keys |-> {},       html |-> None]

\* output.get("html", "")
output_get_html(output) == IF "html" \in output.keys THEN output.html ELSE ""

\* helpers.py 97-101: the try/except around json.loads and output.get.
html_content_of(content) ==
    LET output == json_loads(content)
    IN  IF output.ok THEN output_get_html(output) ELSE FallbackHtml

\* ------------------------------------------------------------------- state

VARIABLES
    caller,   \* the caller of the service: how many requests it submits, whether it
              \* waits for a run to end before the next request (spec.md 5), and
              \* the menu of (task, round, attachments, callback URL) that it
              \* draws each request from
    req,      \* req[q]: what the code read of request q's JSON body
    is_json,  \* is_json[q]: request.is_json of request q
    fd,       \* fd[q]: the front door's position for request q
    http,     \* http[q]: status code of the response to request q, 0 before it
    run,      \* run[q]: the background thread of request q
    wd,       \* wd[t][f]: content of file f in directory task-t, Absent when missing
    remote    \* remote[t]: the GitHub repository task-t

vars == <<caller, req, is_json, fd, http, run, wd, remote>>

NoPayload ==
    [ email |-> <<>>, task |-> None, round |-> 0, nonce |-> <<>>, repo_url |-> <<>>,
      commit_sha |-> <<>>, pages_url |-> <<>>, evaluation_url |-> None ]

\* A thread of process_request. pc is its position. The locals of the functions
\* on its stack: k, prompt, response (generate_app); repo, commit, pages_url,
\* payload (process_request); todo, file_name, content, sha (upload_files_to_repo);
\* i, delay (notify_evaluation). The rest records what the run met and did:
\*   err, at        the exception that ended it and the stage it was raised in
\*   trace          its generation calls, sleeps and callback POSTs, in order
\*   fresh          no repository and no working directory existed when it started
\*   holds          the repository already held every working directory file (and,
\*                  on round 1, the bootstrap files) when its publish step started
\*   faulted        an external call it made failed for a reason of the service
\*   create_result  the answer to its create-repository call
\*   created, updated   the paths it created and updated in the repository
\*   doc            the document it wrote to index.html
\*   met            the runs of the same task that were in progress when it started
NoRun ==
    [ pc |-> "idle", k |-> 0, prompt |-> [brief |-> <<>>, existing_html |-> None],
      response |-> None, repo |-> None, todo |-> {}, file_name |-> None, content |-> None,
      sha |-> <<>>, commit |-> 0, pages_url |-> <<>>, payload |-> NoPayload,
      i |-> 0, delay |-> 0,
      err |-> None, at |-> None, trace |-> <<>>, fresh |-> FALSE, holds |-> FALSE,
      faulted |-> FALSE, create_result |-> None, created |-> {}, updated |-> {},
      doc |-> None, met |-> {} ]

NoRepo == [ exists |-> FALSE, files |-> [p \in Paths |-> Absent], commits |-> 0, pages |-> FALSE ]

\* The stage of spec 4.5 that a position of process_request belongs to.
Stage(pc) ==
    CASE pc \in { "idle" } -> "none"
      [] pc \in { "received" } -> "received"
      [] pc \in { "gen_attach", "gen_read", "gen_call", "gen_write" } -> "generating"
      [] pc \in { "repo_create", "repo_get", "up_license", "up_readme", "up_listdir",
                  "up_get", "up_update", "up_create", "up_commits" } -> "publishing"
      [] pc \in { "pages_post", "pages_wait", "pages_get" } -> "hosting"
      [] pc \in { "notify", "notify_post", "notify_sleep" } -> "notifying"
      [] pc = "done" -> "done"
      [] OTHER -> "aborted"

Ended(r) == run[r].pc \in { "idle", "done", "aborted" }

\* A caller that serializes its requests, all for one task id.
SerialCaller(n) == [ requests |-> n, serial |-> TRUE, menu |-> "one_task" ]

\* A request without attachments.
Plain(task_id, round_num, evaluation_url) ==
    [ task |-> task_id, round |-> round_num, attachments |-> <<>>,
      evaluation_url |-> evaluation_url ]

\* The (task, round, attachments, callback URL) combinations request q is drawn
\* from, for each menu.
\*   one_task    every combination, for task t1
\*   two_tasks   a first round of t2 and a second round of t1, alternating
\*   overlap     rounds 1 and 2 of t1, and a first round of t2 with a callback
Menu(name, q) ==
    CASE name = "one_task" ->
           [ task : {"t1"}, round : Rounds, attachments : AttachmentLists,
             evaluation_url : EvaluationUrls ]
      [] name = "two_tasks" ->
           IF q % 2 = 1 THEN { Plain("t2", 1, None) } ELSE { Plain("t1", 2, CallbackUrl) }
      [] name = "overlap" ->
           { Plain("t1", 1, None), Plain("t1", 2, None), Plain("t2", 1, CallbackUrl) }

\* The bodies the caller may send as request q.
Sends(c, q) ==
    { data \in RequestBodies(q) :
        [ task |-> data.task, round |-> data.round, attachments |-> data.attachments,
          evaluation_url |-> data.evaluation_url ] \in Menu(c.menu, q) }

Init ==
    /\ caller = SerialCaller(MaxRequests)
    /\ req = [q \in Requests |-> NoRequest]
    /\ is_json = [q \in Requests |-> FALSE]
    /\ fd = [q \in Requests |-> "new"]
    /\ http = [q \in Requests |-> 0]
    /\ run = [q \in Requests |-> NoRun]
    /\ wd = [t \in TaskIds |-> [f \in FileNames |-> Absent]]
    /\ remote = [t \in TaskIds |-> NoRepo]

Log(rec, event) == [rec EXCEPT !.trace = Append(@, event)]
GenerateEvent(prompt) == [op |-> "generate", prompt |-> prompt]
SleepEvent(d) == [op |-> "sleep", seconds |-> d]
\* ok: the response had status 200.
PostEvent(url, body, ok) == [op |-> "post", url |-> url, json |-> body, ok |-> ok]

Goto(r, rec) == run' = [run EXCEPT ![r] = rec]

\* The thread ends: its locals go, the record of the run stays.
EndThread(rec, pc) ==
    [NoRun EXCEPT !.pc = pc, !.err = rec.err, !.at = rec.at, !.trace = rec.trace,
                  !.fresh = rec.fresh, !.holds = rec.holds, !.faulted = rec.faulted,
                  !.create_result = rec.create_result, !.created = rec.created,
                  !.updated = rec.updated, !.doc = rec.doc, !.payload = rec.payload,
                  !.met = rec.met]

\* An exception leaves process_request.
Throw(rec, exc) ==
    EndThread([rec EXCEPT !.err = exc, !.at = Stage(rec.pc), !.payload = NoPayload], "aborted")
Raise(r, exc) == Goto(r, Throw(run[r], exc))
\* process_request returns.
Return(rec) == EndThread(rec, "done")

\* Exceptions whose cause is the service or the network, not the request.
TransientErrors == { "GithubException(500)", "ConnectionError", "APIConnectionError", "AttributeError" }

\* -------------------------------------------------------------- front door

\* Variant of Unauthorized: the comparison with the shared secret is left out.
UnauthorizedOnlyMissing(secret) == ~Truthy(secret)
\* app.py 23: not secret or secret != os.environ.get('SHARED_SECRET')
Unauthorized(secret) == ~Truthy(secret) \/ secret # SHARED_SECRET

\* Variant of listdir: only the generated document is listed.
listdirOnlyDocument(task_id) == { f \in { IndexHtml } : wd[task_id][f] # Absent }
\* os.listdir(task_dir)
listdir(task_id) == { f \in FileNames : wd[task_id][f] # Absent }

\* app.py 16-28: the checks, and thread.start() for an accepted request. The
\* rejections read is_json and secret only.
handle_request(q) ==
    /\ fd[q] = "new"
    /\ q > 1 => fd[q - 1] # "new"
    /\ q <= caller.requests
    /\ caller.serial => \A p \in Requests : Ended(p) /\ fd[p] # "started"
    /\ \E js \in BOOLEAN, data \in Sends(caller, q) :
        /\ is_json' = [is_json EXCEPT ![q] = js]
        /\ IF ~js
             THEN /\ http' = [http EXCEPT ![q] = 400]
                  /\ fd' = [fd EXCEPT ![q] = "responded"]
                  /\ UNCHANGED <<req, run>>
             ELSE IF Unauthorized(data.secret)
             THEN /\ http' = [http EXCEPT ![q] = 401]
                  /\ fd' = [fd EXCEPT ![q] = "responded"]
                  /\ req' = [req EXCEPT ![q] = [NoRequest EXCEPT !.secret = data.secret]]
                  /\ UNCHANGED run
             ELSE /\ fd' = [fd EXCEPT ![q] = "started"]
                  /\ req' = [req EXCEPT ![q] = data]
                  /\ Goto(q, [NoRun EXCEPT !.pc = "received",
                                !.fresh = ~remote[data.task].exists /\ listdir(data.task) = {},
                                !.met = { p \in Requests :
                                            ~Ended(p) /\ req[p].task = data.task }])
                  /\ UNCHANGED http
    /\ UNCHANGED <<caller, wd, remote>>

\* Variant of handle_request_return: the handler joins the thread before it
\* answers.
handle_request_returnAfterJoin(q) ==
    /\ fd[q] = "started"
    /\ Ended(q)
    /\ http' = [http EXCEPT ![q] = 200]
    /\ fd' = [fd EXCEPT ![q] = "responded"]
    /\ UNCHANGED <<caller, req, is_json, run, wd, remote>>

\* app.py 30: the acknowledgment, returned right after thread.start().
handle_request_return(q) ==
    /\ fd[q] = "started"
    /\ http' = [http EXCEPT ![q] = 200]
    /\ fd' = [fd EXCEPT ![q] = "responded"]
    /\ UNCHANGED <<caller, req, is_json, run, wd, remote>>

\* --------------------------------------------------------- process_request

\* helpers.py 13-22 and 55-56: read the fields, enter generate_app, makedirs.
process_request(r) ==
    /\ run[r].pc = "received"
    /\ Goto(r, [run[r] EXCEPT !.pc = "gen_attach", !.k = 1])
    /\ UNCHANGED <<caller, req, is_json, fd, http, wd, remote>>

WriteFile(task_id, file_name, content) ==
    wd' = [wd EXCEPT ![task_id][file_name] = content]

\* helpers.py 62: if file_name and data_uri
AttachmentUsable(attachment) == Truthy(attachment.name) /\ Truthy(attachment.url)

\* helpers.py 59-66: one iteration of the attachments loop; 68-81 after it.
generate_app_attachment(r) ==
    /\ run[r].pc = "gen_attach"
    /\ LET d == req[r]
           k == run[r].k
       IN  IF k > Len(d.attachments)
             THEN /\ Goto(r, [run[r] EXCEPT
                        !.prompt = [brief |-> d.brief, existing_html |-> None],
                        !.pc = IF d.round > 1 THEN "gen_read" ELSE "gen_call"])
                  /\ UNCHANGED wd
             ELSE LET file_name == d.attachments[k].name
                      data_uri == d.attachments[k].url
                  IN  IF AttachmentUsable(d.attachments[k])
                        THEN IF HasComma(data_uri)
                               THEN /\ WriteFile(d.task, file_name, b64decode(EncodedPart(data_uri)))
                                    /\ Goto(r, [run[r] EXCEPT !.k = k + 1])
                               ELSE /\ Raise(r, "ValueError")
                                    /\ UNCHANGED wd
                        ELSE /\ Goto(r, [run[r] EXCEPT !.k = k + 1])
                             /\ UNCHANGED wd
    /\ UNCHANGED <<caller, req, is_json, fd, http, remote>>

\* helpers.py 81-84: round > 1 reads the stored index.html into the prompt.
generate_app_read(r) ==
    /\ run[r].pc = "gen_read"
    /\ LET existing_html == wd[req[r].task][IndexHtml]
       IN  IF existing_html = Absent
             THEN Raise(r, "FileNotFoundError")
             ELSE Goto(r, [run[r] EXCEPT !.prompt.existing_html = existing_html, !.pc = "gen_call"])
    /\ UNCHANGED <<caller, req, is_json, fd, http, wd, remote>>

\* helpers.py 87-95: the generation call; a transport error is not caught.
generate_app_call(r) ==
    /\ run[r].pc = "gen_call"
    /\ LET asked == Log(run[r], GenerateEvent(run[r].prompt))
       IN  \/ \E content \in ResponseContents :
                Goto(r, [asked EXCEPT !.response = content, !.pc = "gen_write"])
           \/ Goto(r, Throw(asked, "APIConnectionError"))
    /\ UNCHANGED <<caller, req, is_json, fd, http, wd, remote>>

\* Variant of RepoStep: every round goes through create_repo.
RepoStepAlwaysCreate(round_num) == "repo_create"
\* Variant of RepoStep: process_request goes from generate_app to enable_pages.
RepoStepToHosting(round_num) == "pages_post"
\* helpers.py 28-31: round 1 calls create_repo, any other round user.get_repo.
RepoStep(round_num) == IF round_num = 1 THEN "repo_create" ELSE "repo_get"

\* The repository holds the directory's files (and round 1's bootstrap files).
HoldsFiles(repo, dir, task_id, round_num) ==
    /\ repo.exists
    /\ \A f \in FileNames : dir[f] # Absent => repo.files[f] = dir[f]
    /\ round_num = 1 => /\ repo.files["LICENSE"] = LicenseContent
                        /\ repo.files["README.md"] = ReadmeContent(task_id)

\* helpers.py 97-105: parse the response, write index.html; generate_app returns
\* and process_request goes on to its lines 24-31.
generate_app_write(r) ==
    /\ run[r].pc = "gen_write"
    /\ LET t == req[r].task
           html_content == html_content_of(run[r].response)
       IN  /\ WriteFile(t, IndexHtml, html_content)
           /\ Goto(r, [run[r] EXCEPT !.k = NoRun.k, !.prompt = NoRun.prompt,
                          !.response = NoRun.response, !.doc = html_content,
                          !.holds = HoldsFiles(remote[t], wd'[t], t, req[r].round),
                          !.pc = RepoStep(req[r].round)])
    /\ UNCHANGED <<caller, req, is_json, fd, http, remote>>

\* ------------------------------------------------ the artifact store (GitHub)

Repo(task_id) == remote[task_id]
SetRepo(task_id, rec) == remote' = [remote EXCEPT ![task_id] = rec]
EmptyRepo == [ exists |-> TRUE, files |-> [p \in Paths |-> Absent], commits |-> 0, pages |-> FALSE ]

\* Contents API, PUT without sha: the path must not exist at HEAD (else 422).
CanCreateFile(repo, path) == repo.exists /\ repo.files[path] = Absent
\* Contents API, PUT with sha: the sha must be that of the blob at HEAD (else 409).
CanUpdateFile(repo, path, sha) ==
    repo.exists /\ repo.files[path] # Absent /\ Sha(repo.files[path]) = sha
\* Either write is one commit on main.
PutFile(repo, path, content) ==
    [repo EXCEPT !.files[path] = content, !.commits = @ + 1]

FallsBackToGetAlways(status) == TRUE

\* helpers.py 119: the except branch of create_repo fetches the repository.
FallsBackToGet(status) == status = "422"

\* What the except branch of create_repo does with a failed creation: line 120,
\* line 122, or the AttributeError of e.status on an exception without a status.
AfterCreateFailure(rec, result) ==
    IF result \in { "422", "500" }
      THEN IF FallsBackToGet(result)
             THEN [rec EXCEPT !.create_result = result, !.pc = "repo_get"]
             ELSE Throw([rec EXCEPT !.create_result = result],
                        IF result = "422" THEN "GithubException(422)" ELSE "GithubException(500)")
      ELSE Throw([rec EXCEPT !.create_result = result], "AttributeError")

\* helpers.py 111-122: create_repo, called on round 1 (process_request line 29).
\* 201 creates the repository; 422 reports an existing name, or a name the
\* service refuses; 500 and a failed connection are the service's own failures.
create_repo(r) ==
    /\ run[r].pc = "repo_create"
    /\ LET t == req[r].task
       IN  \/ /\ ~Repo(t).exists
              /\ SetRepo(t, EmptyRepo)
              /\ Goto(r, [run[r] EXCEPT !.create_result = "201", !.repo = t, !.pc = "up_license"])
           \/ /\ \E result \in { "422", "500", "ConnectionError" } :
                    Goto(r, AfterCreateFailure(run[r], result))
              /\ UNCHANGED remote
    /\ UNCHANGED <<caller, req, is_json, fd, http, wd>>

\* helpers.py 31 and 120: user.get_repo(repo_name).
get_repo(r) ==
    /\ run[r].pc = "repo_get"
    /\ LET t == req[r].task
       IN  \/ /\ Repo(t).exists
              /\ Goto(r, [run[r] EXCEPT !.repo = t,
                            !.pc = IF req[r].round = 1 THEN "up_license" ELSE "up_listdir"])
           \/ /\ ~Repo(t).exists
              /\ Raise(r, "UnknownObjectException(404)")
           \/ Raise(r, "GithubException(500)")
    /\ UNCHANGED <<caller, req, is_json, fd, http, wd, remote>>

\* Variant of CreateFile: a failed create removes the files the run created.
CreateFileRollsBack(r, path, content, next) ==
    LET t == run[r].repo
        undone == [Repo(t) EXCEPT !.files =
                       [p \in Paths |-> IF p \in run[r].created THEN Absent ELSE @[p]]]
    IN  \/ /\ CanCreateFile(Repo(t), path)
           /\ SetRepo(t, PutFile(Repo(t), path, content))
           /\ Goto(r, [next EXCEPT !.created = @ \cup {path}])
        \/ /\ ~CanCreateFile(Repo(t), path)
           /\ Raise(r, "GithubException(422)")
           /\ SetRepo(t, undone)
        \/ /\ Raise(r, "GithubException(500)")
           /\ SetRepo(t, undone)

\* repo.create_file(path, message, content, branch="main") where no except
\* clause surrounds it: lines 132 and 150, and line 163 inside the handler.
CreateFile(r, path, content, next) ==
    LET t == run[r].repo
    IN  \/ /\ CanCreateFile(Repo(t), path)
           /\ SetRepo(t, PutFile(Repo(t), path, content))
           /\ Goto(r, [next EXCEPT !.created = @ \cup {path}])
        \/ /\ ~CanCreateFile(Repo(t), path)
           /\ Raise(r, "GithubException(422)")
           /\ UNCHANGED remote
        \/ /\ Raise(r, "GithubException(500)")
           /\ UNCHANGED remote

\* helpers.py 130-132: round 1 creates LICENSE, without looking for it first.
upload_license(r) ==
    /\ run[r].pc = "up_license"
    /\ CreateFile(r, "LICENSE", LicenseContent, [run[r] EXCEPT !.pc = "up_readme"])
    /\ UNCHANGED <<caller, req, is_json, fd, http, wd>>

\* helpers.py 135-150: round 1 creates README.md.
upload_readme(r) ==
    /\ run[r].pc = "up_readme"
    /\ CreateFile(r, "README.md", ReadmeContent(req[r].task), [run[r] EXCEPT !.pc = "up_listdir"])
    /\ UNCHANGED <<caller, req, is_json, fd, http, wd>>

\* helpers.py 153: the loop's iterable.
upload_listdir(r) ==
    /\ run[r].pc = "up_listdir"
    /\ LET todo == listdir(req[r].task)
       IN  Goto(r, [run[r] EXCEPT !.todo = todo,
                       !.pc = IF todo = {} THEN "up_commits" ELSE "up_get"])
    /\ UNCHANGED <<caller, req, is_json, fd, http, wd, remote>>

\* The loop moves on to the next file, or to line 165 after the last one.
NextFile(rec) ==
    LET todo == rec.todo \ { rec.file_name }
    IN  [rec EXCEPT !.todo = todo, !.pc = IF todo = {} THEN "up_commits" ELSE "up_get"]

\* helpers.py 154-159: read the next local file and look it up at the remote HEAD.
\* A file at HEAD is found, a missing one is a 404; the service may also fail.
\* The bare except of line 161 sends every failure to the create branch.
upload_get_contents(r) ==
    /\ run[r].pc = "up_get"
    /\ \E file_name \in run[r].todo :
        LET content == wd[req[r].task][file_name]
            rec == [run[r] EXCEPT !.file_name = file_name, !.content = content]
            existing == Repo(run[r].repo).files[file_name]
        IN  IF content = Absent
              THEN Raise(r, "FileNotFoundError")
              ELSE \/ /\ existing # Absent
                      /\ Goto(r, [rec EXCEPT !.sha = Sha(existing), !.pc = "up_update"])
                   \/ /\ existing = Absent
                      /\ Goto(r, [rec EXCEPT !.pc = "up_create"])
                   \/ /\ existing # Absent
                      /\ Goto(r, [rec EXCEPT !.faulted = TRUE, !.pc = "up_create"])
    /\ UNCHANGED <<caller, req, is_json, fd, http, wd, remote>>

\* helpers.py 160-161: update_file with the sha read; a stale sha (409) and a
\* failure of the service both fall into the bare except.
upload_update_file(r) ==
    /\ run[r].pc = "up_update"
    /\ LET t == run[r].repo
           path == run[r].file_name
       IN  \/ /\ CanUpdateFile(Repo(t), path, run[r].sha)
              /\ SetRepo(t, PutFile(Repo(t), path, run[r].content))
              /\ Goto(r, NextFile([run[r] EXCEPT !.updated = @ \cup {path}]))
           \/ /\ ~CanUpdateFile(Repo(t), path, run[r].sha)
              /\ Goto(r, [run[r] EXCEPT !.pc = "up_create"])
              /\ UNCHANGED remote
           \/ /\ Goto(r, [run[r] EXCEPT !.faulted = TRUE, !.pc = "up_create"])
              /\ UNCHANGED remote
    /\ UNCHANGED <<caller, req, is_json, fd, http, wd>>

\* helpers.py 161-163: create_file in the except branch; its failure is not caught.
upload_create_file(r) ==
    /\ run[r].pc = "up_create"
    /\ CreateFile(r, run[r].file_name, run[r].content, NextFile(run[r]))
    /\ UNCHANGED <<caller, req, is_json, fd, http, wd>>

\* Variant of upload_get_commits: the oldest commit, repo.get_commits()[-1].
upload_get_commitsOldest(r) ==
    /\ run[r].pc = "up_commits"
    /\ \/ /\ Repo(run[r].repo).commits > 0
          /\ Goto(r, [run[r] EXCEPT !.commit = 1, !.todo = NoRun.todo,
                          !.file_name = NoRun.file_name, !.content = NoRun.content,
                          !.sha = NoRun.sha, !.pc = "pages_post"])
       \/ Raise(r, "GithubException(500)")
    /\ UNCHANGED <<caller, req, is_json, fd, http, wd, remote>>

\* helpers.py 165: repo.get_commits()[0], the newest commit on the default
\* branch; upload_files_to_repo returns.
upload_get_commits(r) ==
    /\ run[r].pc = "up_commits"
    /\ \/ /\ Repo(run[r].repo).commits > 0
          /\ Goto(r, [run[r] EXCEPT !.commit = Repo(run[r].repo).commits, !.todo = NoRun.todo,
                          !.file_name = NoRun.file_name, !.content = NoRun.content,
                          !.sha = NoRun.sha, !.pc = "pages_post"])
       \/ Raise(r, "GithubException(500)")
    /\ UNCHANGED <<caller, req, is_json, fd, http, wd, remote>>

\* ------------------------------------------------------------ enable_pages

\* helpers.py 186: time.sleep(10)
PagesWait == 10

\* helpers.py 182-184 and 189: POST /repos/<full_name>/pages. 201 enables hosting;
\* a site that is already enabled answers 409, a failing service another error
\* status; requests.post may raise, and no except clause surrounds it.
enable_pages_post(r) ==
    /\ run[r].pc = "pages_post"
    /\ LET t == run[r].repo
       IN  \/ /\ ~Repo(t).pages
              /\ SetRepo(t, [Repo(t) EXCEPT !.pages = TRUE])
              /\ Goto(r, [run[r] EXCEPT !.pages_url = PagesUrl(t), !.pc = "pages_wait"])
           \/ /\ Repo(t).pages
              /\ Goto(r, [run[r] EXCEPT !.pc = "pages_get"])
              /\ UNCHANGED remote
           \/ /\ ~Repo(t).pages
              /\ Goto(r, [run[r] EXCEPT !.faulted = TRUE, !.pc = "pages_get"])
              /\ UNCHANGED remote
           \/ /\ Raise(r, "ConnectionError")
              /\ UNCHANGED remote
    /\ UNCHANGED <<caller, req, is_json, fd, http, wd>>

\* helpers.py 186-187: time.sleep(10), then the URL of the 201 response.
enable_pages_wait(r) ==
    /\ run[r].pc = "pages_wait"
    /\ Goto(r, [Log(run[r], SleepEvent(PagesWait)) EXCEPT !.pc = "notify"])
    /\ UNCHANGED <<caller, req, is_json, fd, http, wd, remote>>

\* Variant of enable_pages_get: the answer of the status read is not used.
enable_pages_getDiscards(r) ==
    /\ run[r].pc = "pages_get"
    /\ \/ Goto(r, [run[r] EXCEPT !.pages_url = <<>>, !.pc = "notify"])
       \/ Raise(r, "ConnectionError")
    /\ UNCHANGED <<caller, req, is_json, fd, http, wd, remote>>

\* helpers.py 190-194: GET of the existing configuration; 200 gives its URL,
\* any other status (404: no site; an error of the service) gives None;
\* requests.get may raise.
enable_pages_get(r) ==
    /\ run[r].pc = "pages_get"
    /\ LET t == run[r].repo
       IN  \/ /\ Repo(t).pages
              /\ Goto(r, [run[r] EXCEPT !.pages_url = PagesUrl(t), !.pc = "notify"])
           \/ /\ ~Repo(t).pages
              /\ Goto(r, [run[r] EXCEPT !.pages_url = <<>>, !.pc = "notify"])
           \/ /\ Repo(t).pages
              /\ Goto(r, [run[r] EXCEPT !.faulted = TRUE, !.pages_url = <<>>, !.pc = "notify"])
           \/ Raise(r, "ConnectionError")
    /\ UNCHANGED <<caller, req, is_json, fd, http, wd, remote>>

\* -------------------------------------------------------- notify_evaluation

\* helpers.py 36-45
Payload(r) ==
    [ email |-> req[r].email, task |-> req[r].task, round |-> req[r].round,
      nonce |-> req[r].nonce, repo_url |-> HtmlUrl(run[r].repo),
      commit_sha |-> CommitSha(run[r].repo, run[r].commit),
      pages_url |-> run[r].pages_url, evaluation_url |-> req[r].evaluation_url ]

\* Variant of DelKey: the key stays in the payload.
DelKeyKeeps(payload, key) == payload
\* del payload["evaluation_url"]
DelKey(payload, key) == [k \in DOMAIN payload \ {key} |-> payload[k]]

\* Variant of MaxAttempts: one pass too many, range(5).
MaxAttemptsOffByOne == 4 + 1
\* helpers.py 207: range(4)
MaxAttempts == 4
\* helpers.py 206: delay = 1
FirstDelay == 1
\* Variant of NextDelay: linear backoff, delay += 1.
NextDelayLinear(delay) == delay + 1
\* helpers.py 217: delay *= 2
NextDelay(delay) == delay * 2

\* helpers.py 36-46 and 200-206: build the payload, enter notify_evaluation.
notify_evaluation(r) ==
    /\ run[r].pc = "notify"
    /\ LET payload == Payload(r)
           url == payload.evaluation_url
       IN  IF ~Truthy(url)
             THEN Goto(r, Return([run[r] EXCEPT !.payload = payload]))
             ELSE Goto(r, [run[r] EXCEPT !.payload = DelKey(payload, "evaluation_url"),
                             !.delay = FirstDelay, !.i = 0, !.pc = "notify_post"])
    /\ UNCHANGED <<caller, req, is_json, fd, http, wd, remote>>

\* Status codes the evaluation service answers with, and the exceptions
\* requests.post raises when it gets no answer.
PostStatuses == { 200, 500 }
PostExceptions == { "ConnectionError", "Timeout" }

\* helpers.py 210: the one status that ends the retries.
IsSuccess(status_code) == status_code = 200
\* Variant of IsCaught: the except clause names an exception the POST never raises.
IsCaughtNever(exc) == exc \in { "JSONDecodeError" }
\* helpers.py 213: except requests.exceptions.RequestException
IsCaught(exc) == exc \in { "ConnectionError", "Timeout", "HTTPError", "InvalidURL" }

\* helpers.py 208-214: one POST and what follows its answer.
notify_post(r) ==
    /\ run[r].pc = "notify_post"
    /\ \/ \E status_code \in PostStatuses :
            LET sent == Log(run[r], PostEvent(req[r].evaluation_url, run[r].payload, status_code = 200))
            IN  IF IsSuccess(status_code)
                  THEN Goto(r, Return(sent))
                  ELSE Goto(r, [sent EXCEPT !.faulted = TRUE, !.pc = "notify_sleep"])
       \/ \E exc \in PostExceptions :
            LET sent == Log(run[r], PostEvent(req[r].evaluation_url, run[r].payload, FALSE))
            IN  IF IsCaught(exc)
                  THEN Goto(r, [sent EXCEPT !.faulted = TRUE, !.pc = "notify_sleep"])
                  ELSE Goto(r, Throw(sent, exc))
    /\ UNCHANGED <<caller, req, is_json, fd, http, wd, remote>>

\* helpers.py 216-217 and the loop header 207; after the last pass
\* notify_evaluation and process_request return.
notify_sleep(r) ==
    /\ run[r].pc = "notify_sleep"
    /\ LET slept == Log(run[r], SleepEvent(run[r].delay))
           i == run[r].i + 1
       IN  IF i < MaxAttempts
             THEN Goto(r, [slept EXCEPT !.delay = NextDelay(@), !.i = i, !.pc = "notify_post"])
             ELSE Goto(r, Return(slept))
    /\ UNCHANGED <<caller, req, is_json, fd, http, wd, remote>>

\* ------------------------------------------------------------ specification

\* The steps of the thread of request q.
RunStep(q) ==
    \/ process_request(q)
    \/ generate_app_attachment(q)
    \/ generate_app_read(q)
    \/ generate_app_call(q)
    \/ generate_app_write(q)
    \/ create_repo(q)
    \/ get_repo(q)
    \/ upload_license(q)
    \/ upload_readme(q)
    \/ upload_listdir(q)
    \/ upload_get_contents(q)
    \/ upload_update_file(q)
    \/ upload_create_file(q)
    \/ upload_get_commits(q)
    \/ enable_pages_post(q)
    \/ enable_pages_wait(q)
    \/ enable_pages_get(q)
    \/ notify_evaluation(q)
    \/ notify_post(q)
    \/ notify_sleep(q)

Next ==
    \E q \in Requests :
        \/ handle_request(q)
        \/ handle_request_return(q)
        \/ RunStep(q)

Spec == Init /\ [][Next]_vars

\* The state a completed round 1 of task t1 leaves behind: the working
\* directory with its document, the repository with the bootstrap files and
\* the document in three commits, hosting enabled.
DeployedDir == [f \in FileNames |-> IF f = IndexHtml THEN "<p>v1</p>" ELSE Absent]
DeployedRepo ==
    [ exists |-> TRUE,
      files |-> [p \in Paths |->
                   CASE p = "LICENSE" -> LicenseContent
                     [] p = "README.md" -> ReadmeContent("t1")
                     [] p = IndexHtml -> "<p>v1</p>"
                     [] OTHER -> Absent],
      commits |-> 3, pages |-> TRUE ]

\* One request, to a fresh service or after a completed round 1.
OneRequestInit ==
    /\ caller = SerialCaller(1)
    /\ req = [q \in Requests |-> NoRequest]
    /\ is_json = [q \in Requests |-> FALSE]
    /\ fd = [q \in Requests |-> "new"]
    /\ http = [q \in Requests |-> 0]
    /\ run = [q \in Requests |-> NoRun]
    /\ \/ /\ wd = [t \in TaskIds |-> [f \in FileNames |-> Absent]]
          /\ remote = [t \in TaskIds |-> NoRepo]
       \/ /\ wd = [t \in TaskIds |-> IF t = "t1" THEN DeployedDir ELSE [f \in FileNames |-> Absent]]
          /\ remote = [t \in TaskIds |-> IF t = "t1" THEN DeployedRepo ELSE NoRepo]

\* Every call a thread makes returns or raises, and the thread is scheduled.
LiveSpec == OneRequestInit /\ [][Next]_vars /\ \A q \in Requests : WF_vars(RunStep(q))

\* A caller that does not wait: its requests may all be in progress at once
\* (app.py 27-30 starts one thread per request and returns).
ConcurrentCaller(menu) == [ requests |-> MaxRequests, serial |-> FALSE, menu |-> menu ]

\* The service after a completed round 1 of task t1, with a caller c.
DeployedInit(c) ==
    /\ caller = c
    /\ req = [q \in Requests |-> NoRequest]
    /\ is_json = [q \in Requests |-> FALSE]
    /\ fd = [q \in Requests |-> "new"]
    /\ http = [q \in Requests |-> 0]
    /\ run = [q \in Requests |-> NoRun]
    /\ wd = [t \in TaskIds |-> IF t = "t1" THEN DeployedDir ELSE [f \in FileNames |-> Absent]]
    /\ remote = [t \in TaskIds |-> IF t = "t1" THEN DeployedRepo ELSE NoRepo]

\* Flask answers a request once its handler returns; nothing is assumed of the
\* threads: a call of a thread to an external service may never return.
BlockSpec ==
    /\ DeployedInit(ConcurrentCaller("two_tasks"))
    /\ [][Next]_vars
    /\ \A q \in Requests : WF_vars(handle_request_return(q))

\* A fresh service with a caller c.
FreshInit(c) ==
    /\ caller = c
    /\ req = [q \in Requests |-> NoRequest]
    /\ is_json = [q \in Requests |-> FALSE]
    /\ fd = [q \in Requests |-> "new"]
    /\ http = [q \in Requests |-> 0]
    /\ run = [q \in Requests |-> NoRun]
    /\ wd = [t \in TaskIds |-> [f \in FileNames |-> Absent]]
    /\ remote = [t \in TaskIds |-> NoRepo]

\* Threads of several requests in progress at once, for the same task or for
\* different tasks: nothing in app.py or helpers.py coordinates them.
ConcSpec == FreshInit(ConcurrentCaller("overlap")) /\ [][Next]_vars

\* ------------------------------------------------------------------ claims

\* Positions of the callback POSTs in a run's trace.
PostIndexes(r) == { n \in DOMAIN run[r].trace : run[r].trace[n].op = "post" }
Posts(r) == Cardinality(PostIndexes(r))
\* The run entered notify_evaluation with a callback URL.
HasCallback(r) == Truthy(req[r].evaluation_url)

\* C1: a call of notify_evaluation sends no POST when the payload carries no
\* callback URL; otherwise it sends at least one and at most 4 POSTs, and no
\* POST follows a POST that was answered with the success status (200).
C1_PostsBoundedAndStopOnSuccess ==
    \A r \in Requests :
        /\ ~HasCallback(r) => Posts(r) = 0
        /\ Posts(r) <= 4
        /\ run[r].pc = "done" /\ HasCallback(r) => Posts(r) >= 1
        /\ \A m, n \in PostIndexes(r) : run[r].trace[m].ok => n <= m

\* C1 witness: a run whose first POST succeeded ended with exactly one POST,
\* after an earlier run sent no POST for want of a callback URL.
C1_Witness ==
    \E p, r \in Requests :
        /\ run[p].pc = "done" /\ ~HasCallback(p) /\ Posts(p) = 0
        /\ run[r].pc = "done" /\ HasCallback(r) /\ Posts(r) = 1
        /\ run[r].trace[Len(run[r].trace)].ok

\* The position in the trace of the k-th POST of run r.
PostAt(r, k) ==
    CHOOSE n \in PostIndexes(r) : Cardinality({ m \in PostIndexes(r) : m <= n }) = k
\* notify_evaluation returned after a run of attempts none of which succeeded.
AllAttemptsFailed(r) ==
    /\ run[r].pc = "done"
    /\ HasCallback(r)
    /\ \A n \in PostIndexes(r) : ~run[r].trace[n].ok
ExpectedWaits == <<1, 2, 4>>

\* C2: when a callback URL is given and every attempt fails, exactly 4 POSTs
\* are attempted, and between attempt k and attempt k+1 (k = 1, 2, 3) the
\* notifier sleeps once, for 1, 2 and 4 time units.
C2_FourPostsWithDoublingWaits ==
    \A r \in Requests :
        AllAttemptsFailed(r) =>
            /\ Posts(r) = 4
            /\ \A k \in 1..3 :
                 /\ PostAt(r, k + 1) = PostAt(r, k) + 2
                 /\ run[r].trace[PostAt(r, k) + 1] = SleepEvent(ExpectedWaits[k])

\* C2 witness: a run with a callback URL ended after its attempts all failed.
C2_Witness == \E r \in Requests : AllAttemptsFailed(r) /\ Posts(r) = 4

\* C3: a failing notification is never fatal: whatever the callback POST
\* attempts answer (an exception of the request, or a status other than 200),
\* notify_evaluation does not raise, and a run that reached the notifying
\* stage reaches done.
C3_NotificationNeverFatal ==
    /\ [](\A r \in Requests : run[r].pc = "aborted" => run[r].at # "notifying")
    /\ \A r \in Requests : (Stage(run[r].pc) = "notifying") ~> (run[r].pc = "done")

\* C3 witness: a run reached done after all 4 attempts failed.
C3_Witness ==
    \E r \in Requests : AllAttemptsFailed(r) /\ Posts(r) = MaxAttempts /\ run[r].faulted

\* C4: a hosting failure never aborts the pipeline: whatever the
\* enable-hosting request and the fallback status request answer, a failed
\* connection included, enable_pages returns a URL or nothing without raising,
\* and the run goes on from hosting to notifying. (Stated as claimed; the code
\* lets the exceptions of requests.post and requests.get escape.)
C4_HostingNeverAborts ==
    \A r \in Requests : run[r].pc = "aborted" => run[r].at # "hosting"

\* A response that is not JSON, or a JSON object without the "html" field.
StructurallyInvalid(content) ==
    ~json_loads(content).ok \/ "html" \notin json_loads(content).keys

\* C5: for every structurally invalid generation response, generate_app writes
\* the fallback error page as index.html, does not raise, and the run goes on
\* to publish. (Stated as claimed; for a JSON object without "html" the code
\* writes the empty string.)
C5_InvalidResponseGivesFallback ==
    [][\A r \in Requests :
          ( /\ run[r].pc = "gen_write"
            /\ StructurallyInvalid(run[r].response)
            /\ run'[r].pc # "gen_write" )
          => /\ wd'[req[r].task][IndexHtml] = FallbackHtml
             /\ Stage(run'[r].pc) = "publishing"]_vars

\* Run r publishes again what an earlier, completed run of the same task and
\* round published: its working directory files are all in the repository, with
\* the same content, when its publish step starts.
SameRoundRerun(r) ==
    /\ run[r].holds
    /\ \E p \in Requests :
         /\ p < r
         /\ req[p].task = req[r].task
         /\ req[p].round = req[r].round
         /\ run[p].pc = "done"
\* No call of run r failed for a reason of the service or the network.
NoServiceFailure(r) ==
    /\ ~run[r].faulted
    /\ run[r].pc = "aborted" => run[r].err \notin TransientErrors

\* C6: re-running publish for the same task and round with identical local
\* files does not fail, on round 1 as on round > 1: with the store answering,
\* the second run gets through publish. (Stated as claimed; on round 1 the
\* second run's unconditional create of LICENSE is refused with 422.)
C6_RerunOfPublishDoesNotFail ==
    \A r \in Requests :
        SameRoundRerun(r) /\ NoServiceFailure(r)
            => ~(run[r].pc = "aborted" /\ run[r].at = "publishing")

\* C7: publishing twice with an unchanged working directory leaves the remote
\* files as one publish does, and the second run updates every working
\* directory file and creates none of them. (Stated as claimed; on round 1 the
\* second run ends at LICENSE, before it updates any file.)
C7_SecondPublishUpdatesEveryFile ==
    \A r \in Requests :
        SameRoundRerun(r) /\ Ended(r) /\ NoServiceFailure(r)
            => /\ run[r].updated = listdir(req[r].task)
               /\ run[r].created \cap listdir(req[r].task) = {}
               /\ \A f \in listdir(req[r].task) :
                    remote[req[r].task].files[f] = wd[req[r].task][f]

\* Run r has just reached done: no later request has been accepted.
JustDone(r) ==
    /\ run[r].pc = "done"
    /\ \A p \in Requests : p > r => run[p].pc = "idle"
\* Attachment k of request r is written to the working directory, and no later
\* attachment of the request is written under the same name.
LastUsable(r, k) ==
    LET atts == req[r].attachments
    IN  /\ AttachmentUsable(atts[k])
        /\ \A j \in DOMAIN atts :
             j > k /\ AttachmentUsable(atts[j]) => atts[j].name # atts[k].name
\* Round 1 of a task that had no repository and no working directory, with
\* every external call of the run succeeding.
FreshRoundOneAllSucceed(r) ==
    /\ req[r].round = 1
    /\ run[r].fresh
    /\ ~run[r].faulted

Accepted(p) == run[p].pc # "idle"
IsPreviousRun(p, r) ==
    /\ p < r /\ Accepted(p) /\ req[p].task = req[r].task
    /\ \A q \in Requests : p < q /\ q < r /\ Accepted(q) => req[q].task # req[r].task
GenerateEvents(r) == { n \in DOMAIN run[r].trace : run[r].trace[n].op = "generate" }

\* C9: on a round > 1 that starts after the previous round of the task has
\* completed, the generation instruction contains the document the previous
\* round wrote to the working directory, and the new round's document replaces
\* it there; a round-1 instruction contains no prior document. (Stated as
\* claimed; an attachment of the new round named index.html is written over
\* the stored document before it is read.)
C9_RevisionUsesPreviousDocument ==
    \A r \in Requests :
        /\ \A n \in GenerateEvents(r) :
             LET existing_html == run[r].trace[n].prompt.existing_html
             IN  /\ req[r].round = 1 => existing_html = None
                 /\ req[r].round > 1 =>
                      \A p \in Requests :
                          IsPreviousRun(p, r) /\ run[p].pc = "done" => existing_html = run[p].doc
        /\ JustDone(r) => wd[req[r].task][IndexHtml] = run[r].doc

\* The repository step of a round-1 run r has just acted.
CreateActed(r) == req[r].round = 1 /\ run[r].pc = "repo_create" /\ run'[r].pc # "repo_create"
FetchActed(r) == req[r].round = 1 /\ run[r].pc = "repo_get" /\ run'[r].pc # "repo_get"
HasHandle(rec, t) == rec.repo = t /\ rec.pc = "up_license"
Propagated(rec) == rec.pc = "aborted" /\ rec.at = "publishing" /\ rec.err # None

\* C10: on round 1 the repository step is a create-or-get. A repository that
\* does not exist is created unless the call fails, and only then; a creation
\* refused with 422 is followed by the fetch, which on an existing repository
\* gives the run the same handle, at the same place, as a creation does (unless
\* the fetch itself fails in the service); a creation that fails in any other
\* way ends the run with an error in publishing, without a fetch.
C10_CreateOrGet ==
    [][\A r \in Requests :
          LET t == req[r].task
          IN  /\ CreateActed(r) =>
                   /\ run'[r].create_result \in { "201", "422", "500", "ConnectionError" }
                   /\ run'[r].create_result = "201" =>
                        /\ ~remote[t].exists /\ remote'[t].exists
                        /\ HasHandle(run'[r], t)
                   /\ run'[r].create_result = "422" =>
                        /\ run'[r].pc = "repo_get"
                        /\ remote' = remote
                   /\ run'[r].create_result \in { "500", "ConnectionError" } =>
                        /\ Propagated(run'[r])
                        /\ remote' = remote
              /\ FetchActed(r) =>
                   /\ run[r].create_result = "422"
                   /\ remote' = remote
                   /\ remote[t].exists =>
                        \/ HasHandle(run'[r], t)
                        \/ Propagated(run'[r]) /\ run'[r].err = "GithubException(500)"
                   /\ ~remote[t].exists => Propagated(run'[r])
    ]_vars

\* A round-1 run whose creation was refused because the repository exists holds
\* the fetched handle.
C10_Witness ==
    \E r \in Requests :
        /\ req[r].round = 1
        /\ run[r].create_result = "422"
        /\ HasHandle(run[r], req[r].task)
        /\ remote[req[r].task].exists

\* A round > 1 run r whose fetch found no repository of the task.
FetchFoundNothing(r) ==
    /\ req[r].round > 1
    /\ run[r].pc = "aborted"
    /\ run[r].err = "UnknownObjectException(404)"

\* C11: a run with round > 1 never issues a create-repository call; it fetches
\* the repository by name, and when the repository does not exist the run
\* ends at that point: it has written no file to the store, made no hosting
\* request and sent no callback POST, the store is as it was, and the run takes
\* no further step.
C11_LaterRoundNeverCreates ==
    /\ [](\A r \in Requests :
            /\ req[r].round > 1 =>
                 run[r].pc # "repo_create" /\ run[r].create_result = None
            /\ FetchFoundNothing(r) =>
                 /\ run[r].at = "publishing"
                 /\ run[r].created = {} /\ run[r].updated = {}
                 /\ Posts(r) = 0)
    /\ [][\A r \in Requests :
            /\ ( /\ req[r].round > 1
                 /\ run[r].pc = "repo_get"
                 /\ run'[r].pc # "repo_get"
                 /\ ~remote[req[r].task].exists )
               => /\ run'[r].pc = "aborted"
                  /\ remote' = remote
            /\ run[r].pc = "aborted" => run'[r] = run[r]]_vars

\* C11 witness: a round-2 run ended at the fetch of a repository that does not exist.
C11_Witness == \E r \in Requests : FetchFoundNothing(r) /\ run[r].doc # None

\* The secret is missing, empty, or not the shared secret.
BadSecret(secret) == secret = None \/ secret = "" \/ secret # SHARED_SECRET
\* The front door has handled request q.
Handled(q) == fd[q] # "new"

\* C12: a request whose secret is missing, empty or different from the shared
\* secret is rejected (401 for a JSON request, 400 for one that is not JSON)
\* by a step that changes neither the working directory nor the store nor any
\* thread, and no thread is ever started for it: its run stays as constructed,
\* with no generation call, no sleep and no POST in its trace.
C12_BadSecretHasNoEffect ==
    /\ [](\A q \in Requests :
            Handled(q) /\ BadSecret(req[q].secret) =>
                /\ fd[q] = "responded"
                /\ http[q] = IF is_json[q] THEN 401 ELSE 400
                /\ run[q] = NoRun)
    /\ [][\A q \in Requests :
            ~Handled(q) /\ Handled(q)' /\ BadSecret(req'[q].secret) =>
                /\ wd' = wd /\ remote' = remote /\ run' = run]_vars

\* C12 witness: requests with a wrong and with an empty secret were rejected
\* with 401.
C12_Witness ==
    \E p, q \in Requests :
        /\ Handled(p) /\ is_json[p] /\ req[p].secret = "wrong" /\ http[p] = 401
        /\ Handled(q) /\ is_json[q] /\ req[q].secret = "" /\ http[q] = 401

\* C13: decoupling. The acknowledgment of an accepted request is sent whatever
\* its thread does, also when the thread never takes another step (blocked
\* forever in an external call); and a thread that is scheduled and whose calls
\* return runs to its end whatever the other threads do, blocked or not.
C13_Decoupling ==
    /\ \A q \in Requests : (fd[q] = "started") ~> (http[q] = 200)
    /\ \A q \in Requests :
          WF_vars(RunStep(q)) => ((run[q].pc = "received") ~> Ended(q))

\* C13 witness: a request has its acknowledgment while its thread has not moved
\* from its first position and the thread of the other request has finished.
C13_Witness ==
    \E p, q \in Requests :
        /\ http[p] = 200 /\ run[p].pc = "received"
        /\ http[q] = 200 /\ run[q].pc = "done"

PayloadKeys == { "email", "task", "round", "nonce", "repo_url", "commit_sha", "pages_url" }

\* C14: every callback POST of a run goes to the callback URL of its request,
\* and its body is the payload without the callback URL: exactly the fields
\* email, task, round, nonce (as in the request), repo_url, commit_sha and
\* pages_url (of the task's repository), no evaluation_url field, and the same
\* body in every attempt of the run.
C14_CallbackBody ==
    \A r \in Requests :
        \A n \in PostIndexes(r) :
            LET post == run[r].trace[n]
                body == post.json
                t == req[r].task
            IN  /\ post.url = req[r].evaluation_url
                /\ DOMAIN body = PayloadKeys
                /\ body.email = req[r].email
                /\ body.task = t
                /\ body.round = req[r].round
                /\ body.nonce = req[r].nonce
                /\ body.repo_url = HtmlUrl(t)
                /\ \E c \in 1..remote[t].commits : body.commit_sha = CommitSha(t, c)
                /\ body.pages_url \in { PagesUrl(t), <<>> }
                /\ "evaluation_url" \notin DOMAIN body
                /\ \A m \in PostIndexes(r) : run[r].trace[m].json = body

\* C14 witness: a run ended after a failed and a successful attempt.
C14_Witness ==
    \E r \in Requests :
        /\ run[r].pc = "done"
        /\ Posts(r) = 2
        /\ run[r].trace[PostAt(r, 2)].ok

\* The pauses of PagesWait in the trace of a run.
PagesWaits(rec) ==
    Cardinality({ n \in DOMAIN rec.trace : rec.trace[n] = SleepEvent(PagesWait) })

\* C15: when the enable-hosting request answers 201, enable_pages waits and
\* returns the URL of that response, with no status read; otherwise it reads
\* the status of the existing configuration, and when that read succeeds (the
\* site exists and the service answers) it returns the site's URL, which is
\* the URL a fresh enable of the same repository returns.
C15_PagesFallbackUrl ==
    [][\A r \in Requests :
          LET t == run[r].repo
              before == run[r]
              after == run'[r]
          IN  /\ before.pc = "pages_post" /\ after.pc = "pages_wait" =>
                   /\ ~remote[t].pages /\ remote'[t].pages
                   /\ after.pages_url = PagesUrl(t)
              /\ before.pc = "pages_wait" /\ after.pc # "pages_wait" =>
                   /\ after.pc = "notify"
                   /\ after.pages_url = PagesUrl(t)
                   /\ PagesWaits(after) = PagesWaits(before) + 1
              /\ before.pc = "pages_get" /\ after.pc = "notify" =>
                   /\ PagesWaits(after) = PagesWaits(before)
                   /\ after.pages_url \in { PagesUrl(t), <<>> }
                   /\ after.pages_url = PagesUrl(t) => remote[t].pages
                   /\ remote[t].pages /\ ~after.faulted => after.pages_url = PagesUrl(t)
    ]_vars

\* C15 witness: after a run that enabled hosting and got the URL from the 201
\* response, a later run whose calls all answered has the same URL from the
\* status read, without the wait.
C15_Witness ==
    \E p, r \in Requests :
        /\ run[p].pc = "done" /\ PagesWaits(run[p]) = 1
        /\ run[p].payload.pages_url = PagesUrl(req[p].task)
        /\ req[r].task = req[p].task
        /\ run[r].pc = "notify" /\ PagesWaits(run[r]) = 0 /\ ~run[r].faulted
        /\ run[r].pages_url = run[p].payload.pages_url

StageOrder == << "received", "generating", "publishing", "hosting", "notifying", "done" >>
StageRank(stage) == CHOOSE n \in DOMAIN StageOrder : StageOrder[n] = stage
\* The thread of run r is in one of its stages.
InPipeline(r) == Stage(run[r].pc) \in { StageOrder[n] : n \in 1..5 }

\* C16: a run goes through the stages received, generating, publishing,
\* hosting, notifying, done in this order, one by one, unless an error ends
\* it; it starts in received and an ended run stays ended. A file of the
\* repository changes only in a step of a run that is in publishing and has
\* written its document; a run in hosting holds the commit publish returned;
\* and a run that has sent a POST is in notifying or done.
C16_StagesInOrder ==
    /\ [](\A r \in Requests :
            /\ Stage(run[r].pc) \in { "publishing", "hosting", "notifying", "done" }
                 => run[r].doc # None
            /\ Stage(run[r].pc) \in { "hosting", "notifying" } => run[r].commit > 0
            /\ Stage(run[r].pc) = "done" => run[r].payload.commit_sha # <<>>
            /\ Posts(r) > 0 => Stage(run[r].pc) \in { "notifying", "done" })
    /\ [][\A r \in Requests :
            LET old == Stage(run[r].pc)
                new == Stage(run'[r].pc)
            IN  /\ old # new =>
                     \/ old = "none" /\ new = "received"
                     \/ InPipeline(r) /\ new = "aborted"
                     \/ InPipeline(r) /\ new \in { StageOrder[n] : n \in DOMAIN StageOrder }
                          /\ StageRank(new) = StageRank(old) + 1
       ]_vars
    /\ [][\A t \in TaskIds :
            /\ remote'[t].files # remote[t].files =>
                 \E r \in Requests :
                     /\ req[r].task = t
                     /\ Stage(run[r].pc) = "publishing"
                     /\ run[r].doc # None
                     /\ run'[r] # run[r]
            /\ remote'[t].pages # remote[t].pages =>
                 \E r \in Requests :
                     /\ req[r].task = t
                     /\ Stage(run[r].pc) = "hosting"
                     /\ run[r].commit > 0
                     /\ run'[r] # run[r]
       ]_vars

\* C16 witness: a run went through all the stages, with a callback POST.
C16_Witness ==
    \E r \in Requests :
        /\ run[r].pc = "done"
        /\ Posts(r) > 0
        /\ run[r].payload.commit_sha # <<>>
        /\ remote[req[r].task].pages

\* The generation call of run r failed, and no later request has been accepted.
GenerationFailed(r) ==
    /\ run[r].pc = "aborted"
    /\ run[r].err = "APIConnectionError"
    /\ \A p \in Requests : p > r => run[p].pc = "idle"

\* C17: when the call to the generation service fails, the error ends the run
\* in generating: the run has made no repository create or fetch, no remote
\* file write, no hosting request and no callback POST, and the document
\* stored in the working directory is the one the previous completed run of
\* the task stored. (Stated as claimed; an attachment of the failed run named
\* index.html has been written over the stored document before the call.)
C17_GenerationFailureLeavesDocument ==
    \A r \in Requests :
        GenerationFailed(r) =>
            LET t == req[r].task
            IN  /\ run[r].at = "generating"
                /\ run[r].create_result = None
                /\ run[r].created = {} /\ run[r].updated = {}
                /\ Posts(r) = 0
                /\ run[r].doc = None
                /\ \A p \in Requests :
                     IsPreviousRun(p, r) /\ run[p].pc = "done" => wd[t][IndexHtml] = run[p].doc

\* The file of the publish loop that run r is at exists at the remote HEAD.
ExistsRemotely(r, file_name) == remote[run[r].repo].files[file_name] # Absent

\* C18: in the publish loop an update is issued exactly for the files that
\* exist at the remote HEAD and a create exactly for those that do not: after
\* the existence check the loop goes to the update when the file exists and to
\* the create when it does not, an update is issued only for a name that
\* exists, and a create is never issued for a name that exists, whether the
\* existence check or the update failed or not. (Stated as claimed; the bare
\* except sends every failure of the check and of the update to the create.)
C18_UpdateIffExists ==
    [][\A r \in Requests :
          /\ run[r].pc = "up_get" /\ run'[r].pc \in { "up_update", "up_create" } =>
               ( run'[r].pc = "up_update" <=> ExistsRemotely(r, run'[r].file_name) )
          /\ run[r].pc = "up_update" /\ run'[r] # run[r] =>
               ExistsRemotely(r, run[r].file_name)
          /\ run[r].pc = "up_create" /\ run'[r] # run[r] =>
               ~ExistsRemotely(r, run[r].file_name)
    ]_vars

\* Run r is in upload_files_to_repo.
Uploading(r) ==
    run[r].pc \in { "up_license", "up_readme", "up_listdir", "up_get", "up_update",
                    "up_create", "up_commits" }
\* A step in which a remote file operation of upload_files_to_repo fails and
\* ends run r.
UploadFails(r) ==
    /\ run[r].pc \in { "up_license", "up_readme", "up_get", "up_update", "up_create" }
    /\ run'[r].pc = "aborted"
\* The paths run r has written to the repository.
Written(rec) == rec.created \cup rec.updated
\* What upload_files_to_repo writes under a path.
Uploaded(task_id, path) ==
    CASE path = "LICENSE" -> LicenseContent
      [] path = "README.md" -> ReadmeContent(task_id)
      [] OTHER -> wd[task_id][path]

\* What holds of every failure in publish, and of the steps before and after it:
\* the failing step changes neither the repository nor the working directory;
\* the files the run wrote are in the repository as written; the working
\* directory holds the newly generated document; the run has sent no POST; a
\* step of publish changes no file other than the ones recorded as written (the
\* others stay at their previous version); an ended run takes no step.
NoRollbackNoReport ==
    \A r \in Requests :
        LET t == req[r].task
        IN  /\ UploadFails(r) =>
                 /\ remote' = remote /\ wd' = wd
                 /\ Written(run'[r]) = Written(run[r])
                 /\ \A p \in Written(run[r]) : remote[t].files[p] = Uploaded(t, p)
                 /\ wd[t][IndexHtml] = run[r].doc
                 /\ run'[r].at = "publishing"
                 /\ Posts(r) = 0 /\ run'[r].trace = run[r].trace
            /\ Uploading(r) /\ run'[r] # run[r] =>
                 \A p \in Paths :
                     remote'[t].files[p] # remote[t].files[p] => p \in Written(run'[r])
            /\ run[r].pc = "aborted" => run'[r] = run[r]

\* C19 as claimed: a remote file operation that fails in the middle of publish
\* rolls nothing back and reports nothing, and the working directory's newly
\* generated document differs from the remote document. (The last part fails:
\* the document may have been written before the failure, or equal the
\* previous version.)
C19_PartialPublishAsClaimed ==
    [][/\ NoRollbackNoReport
       /\ \A r \in Requests :
            UploadFails(r) => remote[req[r].task].files[IndexHtml] # wd[req[r].task][IndexHtml]
    ]_vars

\* C19: a remote file operation that fails in the middle of publish rolls
\* nothing back and reports nothing: the files the run wrote stay written, the
\* others stay at their previous version, the working directory keeps the
\* newly generated document, and the run ends without a hosting request or a
\* POST. The remote document is the new one if the run had written it before
\* the failure; otherwise it is the previous version, which differs from the
\* working directory's document exactly when the new document does.
C19_PartialPublish ==
    [][/\ NoRollbackNoReport
       /\ \A r \in Requests :
            UploadFails(r) /\ IndexHtml \in Written(run[r]) =>
                remote[req[r].task].files[IndexHtml] = run[r].doc
    ]_vars

\* C19 witness: a run ended in publish after it wrote some files and before it
\* wrote its document, which differs from the remote one.
C19_Witness ==
    \E r \in Requests :
        /\ run[r].pc = "aborted" /\ run[r].at = "publishing"
        /\ Written(run[r]) # {} /\ IndexHtml \notin Written(run[r])
        /\ wd[req[r].task][IndexHtml] = run[r].doc
        /\ remote[req[r].task].files[IndexHtml] # run[r].doc

\* Run r was in progress at the same time as another run of its task.
Overlapped(r) ==
    \/ run[r].met # {}
    \/ \E p \in Requests : r \in run[p].met
\* Run r reaches done in this step.
ReachesDone(r) == run[r].pc # "done" /\ run'[r].pc = "done"
\* The repository of run r's task holds the document r generated, and the
\* commit of r's payload is the newest commit of that repository.
PublishedOwn(r) ==
    LET t == req[r].task
    IN  /\ remote[t].files[IndexHtml] = run[r].doc
        /\ run[r].payload.commit_sha = CommitSha(t, remote[t].commits)

\* C20: when a run that did not overlap with another run of the same task
\* reaches done (runs of other tasks may be in progress at any time), the
\* repository of its task holds the document the run generated and the commit
\* hash of its payload is the newest commit of that repository.
C20_NonOverlappingRunPublishesOwn ==
    [][\A r \in Requests :
          ReachesDone(r) /\ ~Overlapped(r)' => PublishedOwn(r)'
    ]_vars

\* C20 witness: a run reached done while a run of another task was in
\* progress in its publish step, and holds what C20 says.
C20_Witness ==
    \E r, p \in Requests :
        /\ run[r].pc = "done" /\ ~Overlapped(r) /\ PublishedOwn(r)
        /\ req[p].task # req[r].task
        /\ Stage(run[p].pc) = "publishing" /\ run[p].created # {}

\* The same for every run, overlapping or not. With two overlapping runs of a
\* task it fails, as C20 says it can.
PublishedOwnAlsoWhenOverlapping ==
    [][\A r \in Requests : ReachesDone(r) => PublishedOwn(r)']_vars

\* The state OneRequestInit starts from is one the service reaches.
DeployedReachable == wd["t1"] = DeployedDir /\ remote["t1"] = DeployedRepo

====
